---- MODULE Spec2Model ----
\* Expression trees of the SQL front end (src/Main/SQL/headers/ExprTree.h):
\* construction, toString, typeCheck, isAggregate and getReferencedAttributes.
\*
\* A node is a record whose "kind" is the C++ class and whose other fields are
\* the private members of that class.  std::string values are TLA+ strings.
\* A DoubleLiteral holds its value in halves (3 is 1.5), which is exact for the
\* doubles used here.
EXTENDS Integers, Sequences, FiniteSets

VARIABLES stack, call

vars == <<stack, call>>

\* ---------------------------------------------------------------- bounds
MaxNodes == 3
MaxStack == 2
MaxBindings == 2

\* ---------------------------------------------------------------- inputs
BoolVals == {TRUE, FALSE}
IntVals == {-3, 12}
DoubleVals == {3}
StringTokens == {"'abc'"}
IdentifierArgs == {<<"o", "a">>, <<"o", "b">>, <<"o_a", "b">>, <<"o", "a_b">>}
TableNames == {"Orders", "Cust"}
BoundAliases == {"o"}

\* ---------------------------------------------------------------- ReturnType
stringType == "stringType"
intType == "intType"
doubleType == "doubleType"
boolType == "boolType"
errType == "errType"
ReturnType == {stringType, intType, doubleType, boolType, errType}

typeToString(t) ==
  CASE t = intType -> "int"
    [] t = doubleType -> "double"
    [] t = stringType -> "string"
    [] t = boolType -> "bool"
    [] t = errType -> "error"
    [] OTHER -> "unknown"

\* ---------------------------------------------------------------- catalog
\* MyDB_AttType: isBool() and toString().
AttType(isBoolIn, nameIn) == [isBool |-> isBoolIn, name |-> nameIn]
AttType_isBool(attType) == attType.isBool
AttType_toString(attType) == attType.name

\* A schema is the ordered list of (attribute name, attribute type).
SchemaOf(t) ==
  IF t = "Orders"
  THEN << <<"a", AttType(FALSE, "int")>>,
          <<"b", AttType(FALSE, "string")>>,
          <<"a_b", AttType(FALSE, "blob")>> >>
  ELSE << <<"a", AttType(FALSE, "double")>>,
          <<"b", AttType(TRUE, "bool")>> >>

\* MyDB_Schema::getAttByName: (position, type) of the first attribute of that
\* name, position -1 when there is none.
getAttByName(schema, attName) ==
  LET hits == {i \in DOMAIN schema : schema[i][1] = attName} IN
  IF hits = {} THEN <<-1, AttType(FALSE, "none")>>
  ELSE LET i == CHOOSE k \in hits : \A m \in hits : k <= m
       IN  <<i - 1, schema[i][2]>>

\* map<string, MyDB_TablePtr>: the tables the catalog knows, by name.
CatalogTables == {{}, {"Orders"}, {"Orders", "Cust"}}
Catalogs == {[t \in S |-> [schema |-> SchemaOf(t)]] : S \in CatalogTables}

\* vector<pair<string, string>>: (table name, alias) in FROM-clause order.
BindingPairs == {<<t, a>> : t \in TableNames, a \in BoundAliases}
Bindings == UNION {[1..n -> BindingPairs] : n \in 0..MaxBindings}

\* ---------------------------------------------------------------- constructors
BoolLiteral(fromMe) == [kind |-> "BoolLiteral", myVal |-> fromMe]
DoubleLiteral(fromMe) == [kind |-> "DoubleLiteral", myVal |-> fromMe]
IntLiteral(fromMe) == [kind |-> "IntLiteral", myVal |-> fromMe]
\* fromMe[strlen (fromMe) - 1] = 0; myVal = string (fromMe + 1)
StringLiteral(fromMe) ==
  [kind |-> "StringLiteral", myVal |-> SubSeq(fromMe, 2, Len(fromMe) - 1)]
Identifier(tableNameIn, attNameIn) ==
  [kind |-> "Identifier", tableName |-> tableNameIn, attName |-> attNameIn]
MinusOp(lhsIn, rhsIn) == [kind |-> "MinusOp", lhs |-> lhsIn, rhs |-> rhsIn]
PlusOp(lhsIn, rhsIn) == [kind |-> "PlusOp", lhs |-> lhsIn, rhs |-> rhsIn]
TimesOp(lhsIn, rhsIn) == [kind |-> "TimesOp", lhs |-> lhsIn, rhs |-> rhsIn]
DivideOp(lhsIn, rhsIn) == [kind |-> "DivideOp", lhs |-> lhsIn, rhs |-> rhsIn]
GtOp(lhsIn, rhsIn) == [kind |-> "GtOp", lhs |-> lhsIn, rhs |-> rhsIn]
LtOp(lhsIn, rhsIn) == [kind |-> "LtOp", lhs |-> lhsIn, rhs |-> rhsIn]
NeqOp(lhsIn, rhsIn) == [kind |-> "NeqOp", lhs |-> lhsIn, rhs |-> rhsIn]
OrOp(lhsIn, rhsIn) == [kind |-> "OrOp", lhs |-> lhsIn, rhs |-> rhsIn]
EqOp(lhsIn, rhsIn) == [kind |-> "EqOp", lhs |-> lhsIn, rhs |-> rhsIn]
NotOp(childIn) == [kind |-> "NotOp", child |-> childIn]
SumOp(childIn) == [kind |-> "SumOp", child |-> childIn]
AvgOp(childIn) == [kind |-> "AvgOp", child |-> childIn]

LeafKinds == {"BoolLiteral", "DoubleLiteral", "IntLiteral", "StringLiteral", "Identifier"}
UnaryKinds == {"NotOp", "SumOp", "AvgOp"}
ArithKinds == {"MinusOp", "PlusOp", "TimesOp", "DivideOp"}
CompareKinds == {"GtOp", "LtOp", "NeqOp", "EqOp"}
BinaryKinds == ArithKinds \cup CompareKinds \cup {"OrOp"}

\* The nodes a node owns: its operands, left to right.
Children(e) ==
  IF e.kind \in BinaryKinds THEN <<e.lhs, e.rhs>>
  ELSE IF e.kind \in UnaryKinds THEN <<e.child>>
  ELSE <<>>

RECURSIVE NumNodes(_)
NumNodes(e) ==
  IF e.kind \in BinaryKinds THEN 1 + NumNodes(e.lhs) + NumNodes(e.rhs)
  ELSE IF e.kind \in UnaryKinds THEN 1 + NumNodes(e.child)
  ELSE 1

RECURSIVE Subtrees(_)
Subtrees(e) ==
  IF e.kind \in BinaryKinds THEN {e} \cup Subtrees(e.lhs) \cup Subtrees(e.rhs)
  ELSE IF e.kind \in UnaryKinds THEN {e} \cup Subtrees(e.child)
  ELSE {e}

\* ---------------------------------------------------------------- toString
\* std::to_string (int): decimal digits, a leading '-' when negative.
Digit(d) == SubSeq("0123456789", d + 1, d + 1)

RECURSIVE NatToString(_)
NatToString(n) ==
  IF n < 10 THEN Digit(n) ELSE NatToString(n \div 10) \o Digit(n % 10)

to_string_int(n) == IF n < 0 THEN "-" \o NatToString(-n) ELSE NatToString(n)

\* std::to_string (double): "%f", six digits after the point (value in halves).
to_string_double(h) ==
  NatToString(h \div 2) \o "." \o (IF h % 2 = 1 THEN "500000" ELSE "000000")

BoolLiteral_toString(myVal) == IF myVal THEN "bool[true]" ELSE "bool[false]"
DoubleLiteral_toString(myVal) == "double[" \o to_string_double(myVal) \o "]"
IntLiteral_toString(myVal) == "int[" \o to_string_int(myVal) \o "]"
StringLiteral_toString(myVal) == "string[" \o myVal \o "]"
Identifier_toString(tableName, attName) == "[" \o tableName \o "_" \o attName \o "]"
MinusOp_toString(l, r) == "- (" \o l \o ", " \o r \o ")"
PlusOp_toString(l, r) == "+ (" \o l \o ", " \o r \o ")"
TimesOp_toString(l, r) == "* (" \o l \o ", " \o r \o ")"
DivideOp_toString(l, r) == "/ (" \o l \o ", " \o r \o ")"
GtOp_toString(l, r) == "> (" \o l \o ", " \o r \o ")"
LtOp_toString(l, r) == "< (" \o l \o ", " \o r \o ")"
NeqOp_toString(l, r) == "!= (" \o l \o ", " \o r \o ")"
OrOp_toString(l, r) == "|| (" \o l \o ", " \o r \o ")"
EqOp_toString(l, r) == "== (" \o l \o ", " \o r \o ")"
NotOp_toString(c) == "!(" \o c \o ")"
SumOp_toString(c) == "sum(" \o c \o ")"
AvgOp_toString(c) == "avg(" \o c \o ")"

\* virtual string toString (): dispatch on the class of the node.
RECURSIVE toString(_)
toString(e) ==
  CASE e.kind = "BoolLiteral" -> BoolLiteral_toString(e.myVal)
    [] e.kind = "DoubleLiteral" -> DoubleLiteral_toString(e.myVal)
    [] e.kind = "IntLiteral" -> IntLiteral_toString(e.myVal)
    [] e.kind = "StringLiteral" -> StringLiteral_toString(e.myVal)
    [] e.kind = "Identifier" -> Identifier_toString(e.tableName, e.attName)
    [] e.kind = "MinusOp" -> MinusOp_toString(toString(e.lhs), toString(e.rhs))
    [] e.kind = "PlusOp" -> PlusOp_toString(toString(e.lhs), toString(e.rhs))
    [] e.kind = "TimesOp" -> TimesOp_toString(toString(e.lhs), toString(e.rhs))
    [] e.kind = "DivideOp" -> DivideOp_toString(toString(e.lhs), toString(e.rhs))
    [] e.kind = "GtOp" -> GtOp_toString(toString(e.lhs), toString(e.rhs))
    [] e.kind = "LtOp" -> LtOp_toString(toString(e.lhs), toString(e.rhs))
    [] e.kind = "NeqOp" -> NeqOp_toString(toString(e.lhs), toString(e.rhs))
    [] e.kind = "OrOp" -> OrOp_toString(toString(e.lhs), toString(e.rhs))
    [] e.kind = "EqOp" -> EqOp_toString(toString(e.lhs), toString(e.rhs))
    [] e.kind = "NotOp" -> NotOp_toString(toString(e.child))
    [] e.kind = "SumOp" -> SumOp_toString(toString(e.child))
    [] e.kind = "AvgOp" -> AvgOp_toString(toString(e.child))

\* ---------------------------------------------------------------- typeCheck
BoolLiteral_typeCheck == boolType
DoubleLiteral_typeCheck == doubleType
IntLiteral_typeCheck == intType
StringLiteral_typeCheck == stringType

\* A plausible slip: the scan has no break, so the last matching pair wins.
findAlias_lastMatch(tablesToProcess, tableName) ==
  LET hits == {i \in DOMAIN tablesToProcess : tablesToProcess[i][2] = tableName} IN
  IF hits = {} THEN 0 ELSE CHOOSE k \in hits : \A m \in hits : m <= k

\* The loop of Identifier::typeCheck: the position of the first pair whose
\* second component (the alias) is tableName, 0 when foundAlias stays false.
RECURSIVE findAliasFrom(_, _, _)
findAliasFrom(tablesToProcess, tableName, i) ==
  IF i > Len(tablesToProcess) THEN 0
  ELSE IF tablesToProcess[i][2] = tableName THEN i
  ELSE findAliasFrom(tablesToProcess, tableName, i + 1)

findAlias(tablesToProcess, tableName) == findAliasFrom(tablesToProcess, tableName, 1)

Identifier_typeCheck(tableName, attName, allTables, tablesToProcess) ==
  LET found == findAlias(tablesToProcess, tableName) IN
  IF found = 0 THEN errType
  ELSE
    LET actualTableName == tablesToProcess[found][1] IN
    IF actualTableName \notin DOMAIN allTables THEN errType
    ELSE
      LET schema == allTables[actualTableName].schema
          attInfo == getAttByName(schema, attName)
          attType == attInfo[2]
          typeStr == AttType_toString(attType)
      IN  IF attInfo[1] = -1 THEN errType
          ELSE IF AttType_isBool(attType) THEN boolType
          ELSE IF typeStr = "int" THEN intType
          ELSE IF typeStr = "double" THEN doubleType
          ELSE IF typeStr = "string" THEN stringType
          ELSE errType

\* A plausible slip: the bool test is missing.
MinusOp_typeCheck_noBoolTest(leftType, rightType) ==
  IF leftType = errType \/ rightType = errType THEN errType
  ELSE IF leftType = stringType \/ rightType = stringType THEN errType
  ELSE IF leftType = intType /\ rightType = intType THEN intType
  ELSE doubleType

MinusOp_typeCheck(leftType, rightType) ==
  IF leftType = errType \/ rightType = errType THEN errType
  ELSE IF leftType = stringType \/ rightType = stringType THEN errType
  ELSE IF leftType = boolType \/ rightType = boolType THEN errType
  ELSE IF leftType = intType /\ rightType = intType THEN intType
  ELSE doubleType

\* A plausible slip: the propagation of a child's error is missing.
PlusOp_typeCheck_noErrTest(leftType, rightType) ==
  IF leftType = stringType \/ rightType = stringType THEN stringType
  ELSE IF leftType = boolType \/ rightType = boolType THEN errType
  ELSE IF leftType = intType /\ rightType = intType THEN intType
  ELSE doubleType

\* A plausible slip: the bool test comes before the string test.
PlusOp_typeCheck_boolFirst(leftType, rightType) ==
  IF leftType = errType \/ rightType = errType THEN errType
  ELSE IF leftType = boolType \/ rightType = boolType THEN errType
  ELSE IF leftType = stringType \/ rightType = stringType THEN stringType
  ELSE IF leftType = intType /\ rightType = intType THEN intType
  ELSE doubleType

PlusOp_typeCheck(leftType, rightType) ==
  IF leftType = errType \/ rightType = errType THEN errType
  ELSE IF leftType = stringType \/ rightType = stringType THEN stringType
  ELSE IF leftType = boolType \/ rightType = boolType THEN errType
  ELSE IF leftType = intType /\ rightType = intType THEN intType
  ELSE doubleType

TimesOp_typeCheck(leftType, rightType) ==
  IF leftType = errType \/ rightType = errType THEN errType
  ELSE IF leftType = stringType \/ rightType = stringType THEN errType
  ELSE IF leftType = boolType \/ rightType = boolType THEN errType
  ELSE IF leftType = intType /\ rightType = intType THEN intType
  ELSE doubleType

\* A plausible slip: divide copies the int/int rule of the other operators.
DivideOp_typeCheck_intRule(leftType, rightType) ==
  IF leftType = errType \/ rightType = errType THEN errType
  ELSE IF leftType = stringType \/ rightType = stringType THEN errType
  ELSE IF leftType = boolType \/ rightType = boolType THEN errType
  ELSE IF leftType = intType /\ rightType = intType THEN intType
  ELSE doubleType

DivideOp_typeCheck(leftType, rightType) ==
  IF leftType = errType \/ rightType = errType THEN errType
  ELSE IF leftType = stringType \/ rightType = stringType THEN errType
  ELSE IF leftType = boolType \/ rightType = boolType THEN errType
  ELSE doubleType

GtOp_typeCheck(leftType, rightType) ==
  IF leftType = errType \/ rightType = errType THEN errType
  ELSE IF leftType = stringType \/ rightType = stringType
       THEN IF leftType # rightType THEN errType ELSE boolType
  ELSE IF (leftType = intType \/ leftType = doubleType)
          /\ (rightType = intType \/ rightType = doubleType) THEN boolType
  ELSE errType

LtOp_typeCheck(leftType, rightType) ==
  IF leftType = errType \/ rightType = errType THEN errType
  ELSE IF leftType = stringType \/ rightType = stringType
       THEN IF leftType # rightType THEN errType ELSE boolType
  ELSE IF (leftType = intType \/ leftType = doubleType)
          /\ (rightType = intType \/ rightType = doubleType) THEN boolType
  ELSE errType

NeqOp_typeCheck(leftType, rightType) ==
  IF leftType = errType \/ rightType = errType THEN errType
  ELSE IF leftType = stringType \/ rightType = stringType
       THEN IF leftType # rightType THEN errType ELSE boolType
  ELSE IF (leftType = intType \/ leftType = doubleType)
          /\ (rightType = intType \/ rightType = doubleType) THEN boolType
  ELSE errType

OrOp_typeCheck(leftType, rightType) ==
  IF leftType = errType \/ rightType = errType THEN errType
  ELSE IF leftType # boolType \/ rightType # boolType THEN errType
  ELSE boolType

\* A plausible slip: equality accepts any two operands of the same type.
EqOp_typeCheck_sameType(leftType, rightType) ==
  IF leftType = errType \/ rightType = errType THEN errType
  ELSE IF leftType = rightType THEN boolType
  ELSE IF (leftType = intType \/ leftType = doubleType)
          /\ (rightType = intType \/ rightType = doubleType) THEN boolType
  ELSE errType

EqOp_typeCheck(leftType, rightType) ==
  IF leftType = errType \/ rightType = errType THEN errType
  ELSE IF leftType = stringType \/ rightType = stringType
       THEN IF leftType # rightType THEN errType ELSE boolType
  ELSE IF (leftType = intType \/ leftType = doubleType)
          /\ (rightType = intType \/ rightType = doubleType) THEN boolType
  ELSE errType

NotOp_typeCheck(childType) ==
  IF childType = errType THEN errType
  ELSE IF childType # boolType THEN errType
  ELSE boolType

SumOp_typeCheck(childType) ==
  IF childType = errType THEN errType
  ELSE IF childType = stringType \/ childType = boolType THEN errType
  ELSE childType

\* A plausible slip: avg copies the last line of sum.
AvgOp_typeCheck_childType(childType) ==
  IF childType = errType THEN errType
  ELSE IF childType = stringType \/ childType = boolType THEN errType
  ELSE childType

AvgOp_typeCheck(childType) ==
  IF childType = errType THEN errType
  ELSE IF childType = stringType \/ childType = boolType THEN errType
  ELSE doubleType

\* virtual ReturnType typeCheck (allTables, tablesToProcess): dispatch on the
\* class of the node; an operator node type-checks its operands first.
RECURSIVE typeCheck(_, _, _)
typeCheck(e, allTables, tablesToProcess) ==
  LET tc(c) == typeCheck(c, allTables, tablesToProcess) IN
  CASE e.kind = "BoolLiteral" -> BoolLiteral_typeCheck
    [] e.kind = "DoubleLiteral" -> DoubleLiteral_typeCheck
    [] e.kind = "IntLiteral" -> IntLiteral_typeCheck
    [] e.kind = "StringLiteral" -> StringLiteral_typeCheck
    [] e.kind = "Identifier" ->
         Identifier_typeCheck(e.tableName, e.attName, allTables, tablesToProcess)
    [] e.kind = "MinusOp" -> MinusOp_typeCheck(tc(e.lhs), tc(e.rhs))
    [] e.kind = "PlusOp" -> PlusOp_typeCheck(tc(e.lhs), tc(e.rhs))
    [] e.kind = "TimesOp" -> TimesOp_typeCheck(tc(e.lhs), tc(e.rhs))
    [] e.kind = "DivideOp" -> DivideOp_typeCheck(tc(e.lhs), tc(e.rhs))
    [] e.kind = "GtOp" -> GtOp_typeCheck(tc(e.lhs), tc(e.rhs))
    [] e.kind = "LtOp" -> LtOp_typeCheck(tc(e.lhs), tc(e.rhs))
    [] e.kind = "NeqOp" -> NeqOp_typeCheck(tc(e.lhs), tc(e.rhs))
    [] e.kind = "OrOp" -> OrOp_typeCheck(tc(e.lhs), tc(e.rhs))
    [] e.kind = "EqOp" -> EqOp_typeCheck(tc(e.lhs), tc(e.rhs))
    [] e.kind = "NotOp" -> NotOp_typeCheck(tc(e.child))
    [] e.kind = "SumOp" -> SumOp_typeCheck(tc(e.child))
    [] e.kind = "AvgOp" -> AvgOp_typeCheck(tc(e.child))

\* ---------------------------------------------------------------- cout
\* What a typeCheck writes to cout: the lines, in order, without the endl.
\* Each class has the lines its own typeCheck writes, given what its operands
\* type-checked to; the operands' lines come first, left before right.
NoLine == <<>>

Identifier_cout(tableName, attName, allTables, tablesToProcess) ==
  LET found == findAlias(tablesToProcess, tableName) IN
  IF found = 0
  THEN <<"ERROR: Table alias '" \o tableName \o "' not found in query">>
  ELSE
    LET actualTableName == tablesToProcess[found][1] IN
    IF actualTableName \notin DOMAIN allTables
    THEN <<"ERROR: Table '" \o actualTableName \o "' not found in catalog">>
    ELSE
      LET schema == allTables[actualTableName].schema
          attInfo == getAttByName(schema, attName)
      IN  IF attInfo[1] = -1
          THEN <<"ERROR: Attribute '" \o attName \o "' not found in table '"
                   \o actualTableName>>
          ELSE NoLine

MinusOp_cout(leftType, rightType) ==
  IF leftType = errType \/ rightType = errType THEN NoLine
  ELSE IF leftType = stringType \/ rightType = stringType
       THEN <<"ERROR: Cannot subtract string values">>
  ELSE IF leftType = boolType \/ rightType = boolType
       THEN <<"ERROR: Cannot subtract bool values">>
  ELSE NoLine

PlusOp_cout(leftType, rightType) ==
  IF leftType = errType \/ rightType = errType THEN NoLine
  ELSE IF leftType = stringType \/ rightType = stringType THEN NoLine
  ELSE IF leftType = boolType \/ rightType = boolType
       THEN <<"ERROR: Cannot add bool values">>
  ELSE NoLine

TimesOp_cout(leftType, rightType) ==
  IF leftType = errType \/ rightType = errType THEN NoLine
  ELSE IF leftType = stringType \/ rightType = stringType
       THEN <<"ERROR: Cannot multiply string values">>
  ELSE IF leftType = boolType \/ rightType = boolType
       THEN <<"ERROR: Cannot multiply bool values">>
  ELSE NoLine

DivideOp_cout(leftType, rightType) ==
  IF leftType = errType \/ rightType = errType THEN NoLine
  ELSE IF leftType = stringType \/ rightType = stringType
       THEN <<"ERROR: Cannot divide string values">>
  ELSE IF leftType = boolType \/ rightType = boolType
       THEN <<"ERROR: Cannot divide bool values">>
  ELSE NoLine

\* The line GtOp, LtOp and EqOp write, and NeqOp in its last branch.
Incompatible(leftType, rightType) ==
  "ERROR: Cannot compare incompatible types: " \o "left=" \o typeToString(leftType)
    \o ", right=" \o typeToString(rightType)

GtOp_cout(leftType, rightType) ==
  IF leftType = errType \/ rightType = errType THEN NoLine
  ELSE IF leftType = stringType \/ rightType = stringType
       THEN IF leftType # rightType THEN <<Incompatible(leftType, rightType)>>
            ELSE NoLine
  ELSE IF (leftType = intType \/ leftType = doubleType)
          /\ (rightType = intType \/ rightType = doubleType) THEN NoLine
  ELSE <<Incompatible(leftType, rightType)>>

LtOp_cout(leftType, rightType) ==
  IF leftType = errType \/ rightType = errType THEN NoLine
  ELSE IF leftType = stringType \/ rightType = stringType
       THEN IF leftType # rightType THEN <<Incompatible(leftType, rightType)>>
            ELSE NoLine
  ELSE IF (leftType = intType \/ leftType = doubleType)
          /\ (rightType = intType \/ rightType = doubleType) THEN NoLine
  ELSE <<Incompatible(leftType, rightType)>>

\* The first line of NeqOp has no "left=".
NeqOp_cout(leftType, rightType) ==
  IF leftType = errType \/ rightType = errType THEN NoLine
  ELSE IF leftType = stringType \/ rightType = stringType
       THEN IF leftType # rightType
            THEN <<"ERROR: Cannot compare incompatible types: "
                     \o typeToString(leftType) \o ", right=" \o typeToString(rightType)>>
            ELSE NoLine
  ELSE IF (leftType = intType \/ leftType = doubleType)
          /\ (rightType = intType \/ rightType = doubleType) THEN NoLine
  ELSE <<Incompatible(leftType, rightType)>>

OrOp_cout(leftType, rightType) ==
  IF leftType = errType \/ rightType = errType THEN NoLine
  ELSE IF leftType # boolType \/ rightType # boolType
       THEN <<"ERROR: OR operator requires boolean operands, but got "
                \o typeToString(leftType) \o " and " \o typeToString(rightType) \o ".">>
  ELSE NoLine

EqOp_cout(leftType, rightType) ==
  IF leftType = errType \/ rightType = errType THEN NoLine
  ELSE IF leftType = stringType \/ rightType = stringType
       THEN IF leftType # rightType THEN <<Incompatible(leftType, rightType)>>
            ELSE NoLine
  ELSE IF (leftType = intType \/ leftType = doubleType)
          /\ (rightType = intType \/ rightType = doubleType) THEN NoLine
  ELSE <<Incompatible(leftType, rightType)>>

NotOp_cout(childType) ==
  IF childType = errType THEN NoLine
  ELSE IF childType # boolType
       THEN <<"ERROR: NOT operator requires a boolean expression, but got type "
                \o typeToString(childType)>>
  ELSE NoLine

SumOp_cout(childType, childString) ==
  IF childType = errType THEN NoLine
  ELSE IF childType = stringType \/ childType = boolType
       THEN <<"ERROR: Cannot apply SUM to non-numeric attribute: " \o childString>>
  ELSE NoLine

AvgOp_cout(childType, childString) ==
  IF childType = errType THEN NoLine
  ELSE IF childType = stringType \/ childType = boolType
       THEN <<"ERROR: Cannot apply AVG to non-numeric attribute: " \o childString>>
  ELSE NoLine

\* Everything one typeCheck call on e writes to cout.
RECURSIVE typeCheck_cout(_, _, _)
typeCheck_cout(e, allTables, tablesToProcess) ==
  LET tc(c) == typeCheck(c, allTables, tablesToProcess)
      out(c) == typeCheck_cout(c, allTables, tablesToProcess)
      both == IF e.kind \in BinaryKinds THEN out(e.lhs) \o out(e.rhs) ELSE NoLine
  IN
  CASE e.kind = "Identifier" ->
         Identifier_cout(e.tableName, e.attName, allTables, tablesToProcess)
    [] e.kind = "MinusOp" -> both \o MinusOp_cout(tc(e.lhs), tc(e.rhs))
    [] e.kind = "PlusOp" -> both \o PlusOp_cout(tc(e.lhs), tc(e.rhs))
    [] e.kind = "TimesOp" -> both \o TimesOp_cout(tc(e.lhs), tc(e.rhs))
    [] e.kind = "DivideOp" -> both \o DivideOp_cout(tc(e.lhs), tc(e.rhs))
    [] e.kind = "GtOp" -> both \o GtOp_cout(tc(e.lhs), tc(e.rhs))
    [] e.kind = "LtOp" -> both \o LtOp_cout(tc(e.lhs), tc(e.rhs))
    [] e.kind = "NeqOp" -> both \o NeqOp_cout(tc(e.lhs), tc(e.rhs))
    [] e.kind = "OrOp" -> both \o OrOp_cout(tc(e.lhs), tc(e.rhs))
    [] e.kind = "EqOp" -> both \o EqOp_cout(tc(e.lhs), tc(e.rhs))
    [] e.kind = "NotOp" -> out(e.child) \o NotOp_cout(tc(e.child))
    [] e.kind = "SumOp" -> out(e.child) \o SumOp_cout(tc(e.child), toString(e.child))
    [] e.kind = "AvgOp" -> out(e.child) \o AvgOp_cout(tc(e.child), toString(e.child))
    [] OTHER -> NoLine

\* ---------------------------------------------------------------- isAggregate
\* ExprTree::isAggregate, inherited by every class that does not override it.
ExprTree_isAggregate == FALSE
MinusOp_isAggregate(l, r) == l \/ r
PlusOp_isAggregate(l, r) == l \/ r
TimesOp_isAggregate(l, r) == l \/ r
DivideOp_isAggregate(l, r) == l \/ r
SumOp_isAggregate == TRUE
AvgOp_isAggregate == TRUE

RECURSIVE isAggregate(_)
isAggregate(e) ==
  CASE e.kind = "MinusOp" -> MinusOp_isAggregate(isAggregate(e.lhs), isAggregate(e.rhs))
    [] e.kind = "PlusOp" -> PlusOp_isAggregate(isAggregate(e.lhs), isAggregate(e.rhs))
    [] e.kind = "TimesOp" -> TimesOp_isAggregate(isAggregate(e.lhs), isAggregate(e.rhs))
    [] e.kind = "DivideOp" -> DivideOp_isAggregate(isAggregate(e.lhs), isAggregate(e.rhs))
    [] e.kind = "SumOp" -> SumOp_isAggregate
    [] e.kind = "AvgOp" -> AvgOp_isAggregate
    [] OTHER -> ExprTree_isAggregate

\* ---------------------------------------------------------------- getReferencedAttributes
\* The set is passed by reference; the operators return the set as the call
\* leaves it.  ExprTree::getReferencedAttributes is inherited by every class
\* that does not override it.
ExprTree_getReferencedAttributes(atts) == atts
Identifier_getReferencedAttributes(tableName, attName, atts) ==
  atts \cup {<<tableName, attName>>}

RECURSIVE getReferencedAttributes(_, _)
getReferencedAttributes(e, atts) ==
  CASE e.kind = "Identifier" ->
         Identifier_getReferencedAttributes(e.tableName, e.attName, atts)
    [] e.kind \in ArithKinds ->
         getReferencedAttributes(e.rhs, getReferencedAttributes(e.lhs, atts))
    [] OTHER -> ExprTree_getReferencedAttributes(atts)

\* ---------------------------------------------------------------- state machine
\* stack: the trees the caller holds while it builds an expression bottom-up,
\*        operands first; a constructor takes its operands from the top.
\* call:  the last member function called on the tree on top of the stack, with
\*        its arguments, what it returned and, for typeCheck, what it wrote to
\*        cout; the calls start when the
\*        construction is over, and Discard starts a new construction.
NoCall == [op |-> "none"]

Top == stack[Len(stack)]

RECURSIVE NumNodesAll(_)
NumNodesAll(s) == IF s = <<>> THEN 0 ELSE NumNodes(Head(s)) + NumNodesAll(Tail(s))

\* Construction comes first: a tree is not extended once a member function has
\* been called on it.
CanGrow == call = NoCall /\ NumNodesAll(stack) < MaxNodes

Init ==
  /\ stack = <<>>
  /\ call = NoCall

NewLeaf(node) ==
  /\ CanGrow
  /\ Len(stack) < MaxStack
  /\ stack' = Append(stack, node)
  /\ call' = NoCall

NewUnary(node) ==
  /\ CanGrow
  /\ Len(stack) >= 1
  /\ stack' = Append(SubSeq(stack, 1, Len(stack) - 1), node)
  /\ call' = NoCall

NewBinary(node) ==
  /\ CanGrow
  /\ Len(stack) >= 2
  /\ stack' = Append(SubSeq(stack, 1, Len(stack) - 2), node)
  /\ call' = NoCall

NewBoolLiteral == \E v \in BoolVals : NewLeaf(BoolLiteral(v))
NewDoubleLiteral == \E v \in DoubleVals : NewLeaf(DoubleLiteral(v))
NewIntLiteral == \E v \in IntVals : NewLeaf(IntLiteral(v))
NewStringLiteral == \E v \in StringTokens : NewLeaf(StringLiteral(v))
NewIdentifier == \E a \in IdentifierArgs : NewLeaf(Identifier(a[1], a[2]))

Lhs == stack[Len(stack) - 1]
Rhs == stack[Len(stack)]

NewMinusOp == NewBinary(MinusOp(Lhs, Rhs))
NewPlusOp == NewBinary(PlusOp(Lhs, Rhs))
NewTimesOp == NewBinary(TimesOp(Lhs, Rhs))
NewDivideOp == NewBinary(DivideOp(Lhs, Rhs))
NewGtOp == NewBinary(GtOp(Lhs, Rhs))
NewLtOp == NewBinary(LtOp(Lhs, Rhs))
NewNeqOp == NewBinary(NeqOp(Lhs, Rhs))
NewOrOp == NewBinary(OrOp(Lhs, Rhs))
NewEqOp == NewBinary(EqOp(Lhs, Rhs))
NewNotOp == NewUnary(NotOp(Top))
NewSumOp == NewUnary(SumOp(Top))
NewAvgOp == NewUnary(AvgOp(Top))

\* The caller drops the trees it holds.
Discard ==
  /\ stack # <<>>
  /\ stack' = <<>>
  /\ call' = NoCall

\* root->typeCheck (allTables, tablesToProcess): once, as the first call on a
\* finished tree.
CallTypeCheck ==
  /\ Len(stack) = 1
  /\ call = NoCall
  /\ \E allTables \in Catalogs, tablesToProcess \in Bindings :
       call' = [op |-> "typeCheck", node |-> Top,
                allTables |-> allTables, tablesToProcess |-> tablesToProcess,
                ret |-> typeCheck(Top, allTables, tablesToProcess),
                cout |-> typeCheck_cout(Top, allTables, tablesToProcess)]
  /\ UNCHANGED stack

\* root->isAggregate () on a finished tree.
CallIsAggregate ==
  /\ Len(stack) = 1
  /\ call' = [op |-> "isAggregate", node |-> Top, ret |-> isAggregate(Top)]
  /\ UNCHANGED stack

\* root->getReferencedAttributes (atts) on a finished tree; atts is the
\* caller's set, empty or already holding a pair.
CallGetReferencedAttributes ==
  /\ Len(stack) = 1
  /\ \E atts \in {{}, {<<"o", "b">>}} :
       call' = [op |-> "getReferencedAttributes", node |-> Top, atts |-> atts,
                ret |-> getReferencedAttributes(Top, atts)]
  /\ UNCHANGED stack

\* toString () on the tree on top of the stack, finished or not.
CallToString ==
  /\ Len(stack) >= 1
  /\ call' = [op |-> "toString", node |-> Top, ret |-> toString(Top)]
  /\ UNCHANGED stack

Next ==
  \/ NewBoolLiteral
  \/ NewDoubleLiteral
  \/ NewIntLiteral
  \/ NewStringLiteral
  \/ NewIdentifier
  \/ NewMinusOp
  \/ NewPlusOp
  \/ NewTimesOp
  \/ NewDivideOp
  \/ NewGtOp
  \/ NewLtOp
  \/ NewNeqOp
  \/ NewOrOp
  \/ NewEqOp
  \/ NewNotOp
  \/ NewSumOp
  \/ NewAvgOp
  \/ Discard
  \/ CallTypeCheck
  \/ CallIsAggregate
  \/ CallGetReferencedAttributes
  \/ CallToString

Spec == Init /\ [][Next]_vars

\* ---------------------------------------------------------------- properties
\* The type a subtree has under the arguments of the recorded typeCheck call.
TypeIn(e) == typeCheck(e, call.allTables, call.tablesToProcess)

TypeChecked == call.op = "typeCheck"

NumericTypes == {intType, doubleType}

\* C1: under one catalog and one binding list, when typeCheck of a subtree is
\* error, typeCheck of every ancestor of that subtree, the root included, is
\* error too.
InfectiousError ==
  TypeChecked =>
    \A a \in Subtrees(call.node) : \A s \in Subtrees(a) :
      TypeIn(s) = errType =>
        (IF a = call.node THEN call.ret ELSE TypeIn(a)) = errType

\* A root two levels above a leaf whose type is error has been type-checked.
InfectiousErrorWitness ==
  /\ TypeChecked
  /\ call.node.kind \in UnaryKinds
  /\ call.node.child.kind \in UnaryKinds
  /\ call.node.child.child.kind = "Identifier"
  /\ TypeIn(call.node.child.child) = errType
  /\ call.ret = errType

\* C2: isAggregate () of a node is true exactly when the node is a sum or an
\* avg or a sum or avg occurs beneath it, whatever the kind of the node.
AggregateIffContainsSumOrAvg ==
  call.op = "isAggregate" =>
    (call.ret <=> \E s \in Subtrees(call.node) : s.kind \in {"SumOp", "AvgOp"})

\* C3: on a tree whose inner nodes are arithmetic or sum/avg nodes,
\* getReferencedAttributes called with an empty set leaves exactly the
\* (alias, attribute) pairs of the Identifier leaves of the tree in it.
ReferencedAttributesExact ==
  ( /\ call.op = "getReferencedAttributes"
    /\ call.atts = {}
    /\ \A s \in Subtrees(call.node) :
         s.kind \in LeafKinds \cup ArithKinds \cup {"SumOp", "AvgOp"} )
  => call.ret = {<<s.tableName, s.attName>> :
                   s \in {n \in Subtrees(call.node) : n.kind = "Identifier"}}

\* An arithmetic node has been type-checked and neither operand is error.
ArithChecked ==
  /\ TypeChecked
  /\ call.node.kind \in ArithKinds
  /\ TypeIn(call.node.lhs) # errType
  /\ TypeIn(call.node.rhs) # errType

HasOperand(t) == TypeIn(call.node.lhs) = t \/ TypeIn(call.node.rhs) = t

\* C4, as claimed: an arithmetic node with a bool operand and no error operand
\* type-checks to error, also when the other operand is a string.
BoolOperandIsError ==
  (ArithChecked /\ HasOperand(boolType)) => call.ret = errType

\* C4, amended: an arithmetic node with a bool operand and no error operand
\* type-checks to error, except a PlusOp whose other operand is a string, which
\* type-checks to string.
BoolOperandIsErrorUnlessPlusString ==
  (ArithChecked /\ HasOperand(boolType)) =>
    call.ret = (IF call.node.kind = "PlusOp" /\ HasOperand(stringType)
                THEN stringType ELSE errType)

\* A MinusOp with a bool operand and a numeric operand has been type-checked.
BoolOperandWitness ==
  /\ ArithChecked
  /\ call.node.kind = "MinusOp"
  /\ TypeIn(call.node.lhs) = boolType
  /\ TypeIn(call.node.rhs) \in NumericTypes
  /\ call.ret = errType

\* C5: with both operands int or double, PlusOp, MinusOp and TimesOp type-check
\* to int when both operands are int and to double otherwise; DivideOp
\* type-checks to double in all four cases.
NumericArithmeticType ==
  ( /\ ArithChecked
    /\ TypeIn(call.node.lhs) \in NumericTypes
    /\ TypeIn(call.node.rhs) \in NumericTypes )
  => call.ret = (IF call.node.kind = "DivideOp" THEN doubleType
                 ELSE IF TypeIn(call.node.lhs) = intType /\ TypeIn(call.node.rhs) = intType
                      THEN intType
                 ELSE doubleType)

\* A DivideOp of two int operands has been type-checked.
NumericArithmeticWitness ==
  /\ ArithChecked
  /\ call.node.kind = "DivideOp"
  /\ TypeIn(call.node.lhs) = intType
  /\ TypeIn(call.node.rhs) = intType
  /\ call.ret = doubleType

\* C6: with a string operand and no error operand, PlusOp type-checks to string
\* whatever the other operand is, and MinusOp, TimesOp and DivideOp type-check
\* to error.
StringOperandArithmetic ==
  (ArithChecked /\ HasOperand(stringType)) =>
    call.ret = (IF call.node.kind = "PlusOp" THEN stringType ELSE errType)

\* A PlusOp of a bool and a string has been type-checked.
StringOperandWitness ==
  /\ ArithChecked
  /\ call.node.kind = "PlusOp"
  /\ TypeIn(call.node.lhs) = boolType
  /\ TypeIn(call.node.rhs) = stringType
  /\ call.ret = stringType

\* C7: GtOp, LtOp, EqOp and NeqOp with no error operand type-check to bool when
\* both operands are string or both are int or double, and to error for every
\* other pair; a comparison never type-checks to int, double or string.
ComparisonRule ==
  (TypeChecked /\ call.node.kind \in CompareKinds) =>
    /\ call.ret \in {boolType, errType}
    /\ (TypeIn(call.node.lhs) # errType /\ TypeIn(call.node.rhs) # errType) =>
         (call.ret = boolType <=>
            \/ TypeIn(call.node.lhs) = stringType /\ TypeIn(call.node.rhs) = stringType
            \/ TypeIn(call.node.lhs) \in NumericTypes /\ TypeIn(call.node.rhs) \in NumericTypes)

\* An EqOp of two bool operands has been type-checked.
ComparisonWitness ==
  /\ TypeChecked
  /\ call.node.kind = "EqOp"
  /\ TypeIn(call.node.lhs) = boolType
  /\ TypeIn(call.node.rhs) = boolType
  /\ call.ret = errType

\* C8: SumOp and AvgOp type-check to error on a string or bool operand; SumOp
\* type-checks to int on an int operand and to double on a double operand;
\* AvgOp type-checks to double on both; and isAggregate () of a SumOp or AvgOp
\* is true whatever the operand is.
AggregateRule ==
  /\ (TypeChecked /\ call.node.kind \in {"SumOp", "AvgOp"}) =>
       /\ TypeIn(call.node.child) \in {stringType, boolType} => call.ret = errType
       /\ TypeIn(call.node.child) = intType =>
            call.ret = (IF call.node.kind = "SumOp" THEN intType ELSE doubleType)
       /\ TypeIn(call.node.child) = doubleType => call.ret = doubleType
  /\ (call.op = "isAggregate" /\ call.node.kind \in {"SumOp", "AvgOp"}) =>
       call.ret = TRUE

\* An AvgOp of an int operand has been type-checked.
AggregateWitness ==
  /\ TypeChecked
  /\ call.node.kind = "AvgOp"
  /\ TypeIn(call.node.child) = intType
  /\ call.ret = doubleType

\* The positions of the pairs of the recorded binding list with this alias.
AliasHits(alias) ==
  {i \in DOMAIN call.tablesToProcess : call.tablesToProcess[i][2] = alias}

FirstHit(alias) == CHOOSE k \in AliasHits(alias) : \A m \in AliasHits(alias) : k <= m

\* C9: an Identifier type-checks to error when no pair of the binding list has
\* its alias; otherwise it type-checks to what the first pair with its alias
\* gives on its own, whatever pairs follow that one.
FirstMatchAlias ==
  (TypeChecked /\ call.node.kind = "Identifier") =>
    IF AliasHits(call.node.tableName) = {}
    THEN call.ret = errType
    ELSE call.ret = typeCheck(call.node, call.allTables,
                      <<call.tablesToProcess[FirstHit(call.node.tableName)]>>)

\* An Identifier has been type-checked under a list where two pairs have its
\* alias and the second one alone would give another type.
FirstMatchWitness ==
  /\ TypeChecked
  /\ call.node.kind = "Identifier"
  /\ AliasHits(call.node.tableName) = {1, 2}
  /\ call.ret # typeCheck(call.node, call.allTables, <<call.tablesToProcess[2]>>)
  /\ call.ret # errType

\* C10: two different trees never have the same toString ().
ToStringInjective ==
  call.op = "toString" =>
    \A i \in DOMAIN stack :
      stack[i] # call.node => toString(stack[i]) # call.ret

\* C11: whenever typeCheck of the root returns error, the call has written at
\* least one line to cout, whatever the kind of failure.
ErrorHasDiagnostic ==
  (TypeChecked /\ call.ret = errType) => call.cout # <<>>

====
